---- MODULE Spec2Model ----
(***************************************************************************)
(* A model of src/parsers/parse_apng.ts: the APNG parser that walks the    *)
(* chunks of a PNG/APNG buffer, builds the Animation/Frame model, and      *)
(* synthesizes one standalone PNG byte stream per frame, which it hands to *)
(* the browser's image decoder.                                            *)
(*                                                                         *)
(* Buffers are sequences of bytes (0..255).  Source offsets are 0-based;   *)
(* the sequences here are 1-based, so byte `off` of a buffer b is b[off+1].*)
(***************************************************************************)
EXTENDS Integers, Sequences, FiniteSets, TLC

(***************************************************************************)
(* Bounds of the model.                                                    *)
(***************************************************************************)
\* the largest number of chunks that follow the signature in an input
MaxChunks == 4

(***************************************************************************)
(* Byte helpers of ./parse_base and ./crc32 (not part of src/; modelled    *)
(* from their use in parse_apng.ts and from the specification).            *)
(***************************************************************************)
Byte == 0..255

\* bytes[off] of a Uint8Array; an index outside the array reads `undefined`,
\* which the integer readers coerce to 0
ByteAt(buf, at) == IF at >= 0 /\ at < Len(buf) THEN buf[at + 1] ELSE 0

readByte(buf, at) == ByteAt(buf, at)

\* big-endian 16-bit read
readWord(buf, at) == ByteAt(buf, at) * 256 + ByteAt(buf, at + 1)

\* big-endian 32-bit read
readDWord(buf, at) ==
    ((ByteAt(buf, at) * 256 + ByteAt(buf, at + 1)) * 256
        + ByteAt(buf, at + 2)) * 256 + ByteAt(buf, at + 3)

Min(a, b) == IF a < b THEN a ELSE b
Max(a, b) == IF a > b THEN a ELSE b

\* Uint8Array.prototype.subarray(begin, end) as the bytes it shows: both ends
\* are clamped to the array and an inverted range is empty
Slice(buf, begin, end) ==
    LET b == Min(Max(begin, 0), Len(buf))
        e == Min(Max(end, 0), Len(buf))
    IN  IF e <= b THEN << >> ELSE SubSeq(buf, b + 1, e)

\* a string is the sequence of its character codes
readString(buf, at, length) == Slice(buf, at, at + length)

\* a fresh copy of bytes[start .. start+length-1]
subBuffer(buf, start, length) == Slice(buf, start, start + length)

\* big-endian 4-byte encoding of an unsigned 32-bit value
makeDWordArray(x) ==
    << (x \div 16777216) % 256, (x \div 65536) % 256, (x \div 256) % 256, (x % 256) >>

makeStringArray(type) == type

\* bitwise exclusive-or of two 4-bit values, then of two bytes
RECURSIVE XorBits(_, _, _)
XorBits(a, b, n) ==
    IF n = 0 THEN 0
    ELSE (((a % 2) + (b % 2)) % 2) + 2 * XorBits(a \div 2, b \div 2, n - 1)

Xor4 == [a \in 0..15 |-> [b \in 0..15 |-> XorBits(a, b, 4)]]

Xor8(a, b) == 16 * Xor4[a \div 16][b \div 16] + Xor4[(a % 16)][(b % 16)]

\* 32-bit words are kept as their four base-256 digits, most significant
\* first (the values do not fit TLC's 32-bit integers)
Xor32(a, b) == << Xor8(a[1], b[1]), Xor8(a[2], b[2]), Xor8(a[3], b[3]), Xor8(a[4], b[4]) >>

Shr1(w) ==
    << w[1] \div 2,
       (w[2] \div 2) + 128 * (w[1] % 2),
       (w[3] \div 2) + 128 * (w[2] % 2),
       (w[4] \div 2) + 128 * (w[3] % 2) >>

Shr8(w) == << 0, w[1], w[2], w[3] >>

\* the reflected IEEE 802.3 polynomial 0xEDB88320
CrcPoly == << 237, 184, 131, 32 >>

RECURSIVE CrcTableEntry(_, _)
CrcTableEntry(c, k) ==
    IF k = 0 THEN c
    ELSE CrcTableEntry(IF c[4] % 2 = 1 THEN Xor32(CrcPoly, Shr1(c)) ELSE Shr1(c), k - 1)

CrcTable == [n \in Byte |-> CrcTableEntry(<< 0, 0, 0, n >>, 8)]

\* the loop over the bytes: crc = (crc >>> 8) ^ table[(crc ^ bytes[i]) & 0xFF].
\* (The test on crc[4] is always false; it makes TLC evaluate the register at
\* every step rather than suspend the whole chain of steps.)
RECURSIVE CrcLoop(_, _, _, _)
CrcLoop(crc, buf, i, l) ==
    IF i >= l \/ crc[4] \notin Byte THEN crc
    ELSE CrcLoop(Xor32(Shr8(crc), CrcTable[Xor8(crc[4], ByteAt(buf, i))]),
                 buf, i + 1, l)

\* CRC-32 of bytes[start .. start+length-1], as four big-endian bytes
crc32(buf, start, length) ==
    Xor32(CrcLoop(<< 255, 255, 255, 255 >>, buf, start, start + length),
          << 255, 255, 255, 255 >>)

(***************************************************************************)
(* Chunk type tags, as character codes.                                    *)
(***************************************************************************)
IHDR == << 73, 72, 68, 82 >>
acTL == << 97, 99, 84, 76 >>
fcTL == << 102, 99, 84, 76 >>
fdAT == << 102, 100, 65, 84 >>
IDAT == << 73, 68, 65, 84 >>
IEND == << 73, 69, 78, 68 >>
tEXt == << 116, 69, 88, 116 >>

Tags == { IHDR, acTL, fcTL, fdAT, IDAT, IEND, tEXt }

\* support.PNG_SIGNATURE_BYTES
PNG_SIGNATURE_BYTES == << 137, 80, 78, 71, 13, 10, 26, 10 >>

(***************************************************************************)
(* makeChunkBytes: length, tag, payload, CRC over tag and payload.         *)
(***************************************************************************)
\* a chunk whose checksum covers the payload only, not the tag
makeChunkBytesCrcOfPayload(type, dataBytes) ==
    LET crcLen == Len(type) + Len(dataBytes)
        head   == makeDWordArray(Len(dataBytes)) \o makeStringArray(type) \o dataBytes
        crc    == crc32(head, 8, Len(dataBytes))
    IN  head \o crc

makeChunkBytes(type, dataBytes) ==
    LET crcLen == Len(type) + Len(dataBytes)
        head   == makeDWordArray(Len(dataBytes)) \o makeStringArray(type) \o dataBytes
        crc    == crc32(head, 4, crcLen)
    IN  head \o crc

(***************************************************************************)
(* The inputs: the signature followed by up to MaxChunks well-formed       *)
(* chunks.  The tag of every chunk is free; the fields of the chunk at     *)
(* position i are taken from the tables below, so that chunks of one type  *)
(* at different positions carry different values.                          *)
(***************************************************************************)
Pick(table, i) == table[((i - 1) % Len(table)) + 1]

\* width, height of an IHDR chunk
IhdrFields == << << 2, 3 >>, << 3, 2 >>, << 2, 3 >>, << 4, 1 >>, << 1, 258 >> >>

\* num_plays of an acTL chunk
AcTLPlays == << 2, 3, 4, 5, 0 >>

\* width, height, x, y, delay_num, delay_den, dispose_op, blend_op of an fcTL
FcTLFields ==
    << << 1, 2, 1, 1, 2, 0, 0, 0 >>,
       << 2, 3, 0, 0, 1, 100, 1, 0 >>,
       << 1, 1, 1, 2, 100, 100, 2, 1 >>,
       << 3, 2, 0, 0, 65535, 7, 0, 1 >>,
       << 258, 1, 0, 0, 1, 0, 1, 0 >>,
       << 2, 3, 0, 0, 0, 65535, 0, 0 >> >>

Word(x) == << (x \div 256) % 256, (x % 256) >>

Payload(type, i) ==
    CASE type = IHDR ->
           LET d == Pick(IhdrFields, i)
           IN  makeDWordArray(d[1]) \o makeDWordArray(d[2]) \o << 8, 6, 0, 0, 0 >>
      [] type = acTL -> makeDWordArray(9) \o makeDWordArray(Pick(AcTLPlays, i))
      [] type = fcTL ->
           LET d == Pick(FcTLFields, i)
           IN  makeDWordArray(i) \o makeDWordArray(d[1]) \o makeDWordArray(d[2])
                 \o makeDWordArray(d[3]) \o makeDWordArray(d[4])
                 \o Word(d[5]) \o Word(d[6]) \o << d[7], d[8] >>
      [] type = fdAT -> makeDWordArray(i) \o << 200 + i, 100 + i >>
      [] type = IDAT -> << 10 + i, 20 + i, 30 + i >>
      [] type = IEND -> << >>
      [] OTHER -> << 65, 48 + i >>

\* the chunk of each type at each position, computed once
\* a chunk as the PNG format lays it out: length, tag, payload, CRC
WellFormedChunk(type, payload) ==
    LET head == makeDWordArray(Len(payload)) \o type \o payload
    IN  head \o crc32(head, 4, Len(type) + Len(payload))

InputChunk ==
    [type \in Tags |-> [i \in 1..MaxChunks |-> WellFormedChunk(type, Payload(type, i))]]

\* the concatenation of a sequence of byte arrays (what a Blob of them holds)
RECURSIVE ConcatFrom(_, _)
ConcatFrom(parts, i) ==
    IF i > Len(parts) THEN << >> ELSE parts[i] \o ConcatFrom(parts, i + 1)

Concat(parts) == ConcatFrom(parts, 1)

MakeInput(tags) ==
    PNG_SIGNATURE_BYTES \o Concat([i \in 1..Len(tags) |-> InputChunk[tags[i]][i]])

InputTags == UNION { [1..n -> Tags] : n \in 0..MaxChunks }


(***************************************************************************)
(* Delays are JavaScript numbers.  1000 * delayN / delayD is the correctly *)
(* rounded quotient of two integers, so it is modelled by the exact        *)
(* fraction in lowest terms, << numerator, denominator >>; the comparison  *)
(* with 10 is exact because the quotient differs from 10 by 0 or by at     *)
(* least 10 / 65535.                                                       *)
(***************************************************************************)
RECURSIVE Gcd(_, _)
Gcd(a, b) == IF b = 0 THEN a ELSE Gcd(b, a % b)

Rat(n, d) == LET g == Gcd(n, d) IN << n \div g, d \div g >>

RatAdd(x, y) == Rat(x[1] * y[2] + y[1] * x[2], x[2] * y[2])

RatLeq(x, y) == x[1] * y[2] <= y[1] * x[2]

RatInt(n) == << n, 1 >>

(***************************************************************************)
(* The state of one call of the default export.                            *)
(***************************************************************************)
VARIABLES
    chunks,          \* the tags of the chunks the input was built from (never changes)
    input,           \* the caller's buffer as it was when the call was made (never changes)
    bytes,           \* the caller's buffer: `bytes` is a view of all of it
    ignoreSingle,    \* options.ignoreSingle
    forceLoop,       \* options.forceLoop
    pc,              \* the position of the promise executor
    promise,         \* "pending", "resolved" or "rejected"
    reason,          \* the rejection reason
    isAnimated,      \* the result of the fast animation test
    off,             \* parseChunks: the offset of the next chunk
    scanVisited,     \* the visitor calls of the pre-scan: << type, off, length >>
    visited,         \* the visitor calls of the extraction pass: << type, off, length >>
    preDataParts,    \* copies of the chunks kept for the prologue
    postDataParts,   \* copies of the chunks kept for the epilogue
    anim,            \* the Animation
    headerDataBytes, \* << >> (undefined) or the view << begin, end >> into bytes
    frame,           \* << >> (undefined) or << the frame in progress >>
    f,               \* the index of the frame synthesis loop
    createdImages,   \* the number of images that have loaded
    urls,            \* the byte streams given to URL.createObjectURL, by frame
    revoked          \* the indices of the object URLs that were revoked

vars == << chunks, input, bytes, ignoreSingle, forceLoop, pc, promise, reason,
           isAnimated, off, scanVisited, visited, preDataParts, postDataParts,
           anim, headerDataBytes, frame, f, createdImages, urls, revoked >>

NotAnimatedError == "Not an animated PNG"
ImageCreationError == "Image creation error"
TypeErrorThrown == "TypeError"
RangeErrorThrown == "RangeError"

\* new Animation()
NewAnimation ==
    [ width |-> 0, height |-> 0, numPlays |-> 0, playTime |-> RatInt(0), frames |-> << >> ]

\* a view bytes.subarray(begin, end) of a buffer of n bytes
View(n, begin, end) ==
    LET b == Min(Max(begin, 0), n)
        e == Min(Max(end, 0), n)
    IN  << b, Max(b, e) >>

\* the bytes a view shows
Deref(buf, view) == Slice(buf, view[1], view[2])

Init ==
    /\ chunks \in InputTags
    /\ input = MakeInput(chunks)
    /\ bytes = input
    /\ ignoreSingle \in BOOLEAN
    /\ forceLoop \in BOOLEAN
    /\ pc = "prescan"
    /\ promise = "pending"
    /\ reason = ""
    /\ isAnimated = FALSE
    /\ off = 8
    /\ scanVisited = << >>
    /\ visited = << >>
    /\ preDataParts = << >>
    /\ postDataParts = << >>
    /\ anim = NewAnimation
    /\ headerDataBytes = << >>
    /\ frame = << >>
    /\ f = 0
    /\ createdImages = 0
    /\ urls = << >>
    /\ revoked = {}

(***************************************************************************)
(* parseChunks: one iteration of the do-while loop.  The loop reads the    *)
(* chunk at `off`, calls the visitor, advances, and goes on while the      *)
(* visitor returned true, the chunk is not IEND and `off` is in the buffer.*)
(***************************************************************************)
ChunkLength(buf, o) == readDWord(buf, o)
ChunkType(buf, o) == readString(buf, o + 4, 4)
NextOff(buf, o) == o + 12 + ChunkLength(buf, o)

\* a walk that does not stop at IEND
GoesOnPastEnd(res, type, o, buf) == res /\ o < Len(buf)

GoesOn(res, type, o, buf) == res /\ type # IEND /\ o < Len(buf)

\* the visitor of the fast animation test
ScanCallback(type) == type # acTL

PreScanStep ==
    /\ pc = "prescan"
    /\ LET length == ChunkLength(bytes, off)
           type   == ChunkType(bytes, off)
           res    == ScanCallback(type)
       IN  /\ isAnimated' = (isAnimated \/ type = acTL)
           /\ scanVisited' = Append(scanVisited, << type, off, length >>)
           /\ off' = NextOff(bytes, off)
           /\ pc' = IF GoesOn(res, type, NextOff(bytes, off), bytes)
                    THEN "prescan" ELSE "prescanned"
    /\ UNCHANGED << chunks, input, bytes, ignoreSingle, forceLoop, promise, reason,
                    visited, preDataParts, postDataParts, anim, headerDataBytes,
                    frame, f, createdImages, urls, revoked >>

\* the test of line 37 with the negation lost
RejectsAnimated == isAnimated /\ ignoreSingle

\* lines 37-43: reject an input that is not animated, or set up the extraction
RejectsAfterScan == ~isAnimated /\ ignoreSingle

PreScanEnd ==
    /\ pc = "prescanned"
    /\ IF RejectsAfterScan
       THEN /\ promise' = "rejected"
            /\ reason' = NotAnimatedError
            /\ pc' = "returned"
            /\ UNCHANGED off
       ELSE /\ pc' = "extract"
            /\ off' = 8
            /\ UNCHANGED << promise, reason >>
    /\ UNCHANGED << chunks, input, bytes, ignoreSingle, forceLoop, isAnimated,
                    scanVisited, visited, preDataParts, postDataParts, anim,
                    headerDataBytes, frame, f, createdImages, urls, revoked >>


(***************************************************************************)
(* The visitor of the extraction pass (lines 45-98), one operator per case *)
(* of the switch.  `st` is the state the visitor closes over:              *)
(* [anim, frame, hdr, pre, post].                                          *)
(***************************************************************************)
VisitorState ==
    [ anim |-> anim, frame |-> frame, hdr |-> headerDataBytes,
      pre |-> preDataParts, post |-> postDataParts ]

\* the clamp of line 67 with < for <=
FrameDelayStrict(delayN, delayD) ==
    LET d     == IF delayD = 0 THEN 100 ELSE delayD
        delay == Rat(1000 * delayN, d)
    IN  IF RatLeq(delay, RatInt(10)) /\ delay # RatInt(10) THEN RatInt(100) ELSE delay

\* a zero denominator replaced by 1000 (milliseconds) instead of 100
FrameDelayMillis(delayN, delayD) ==
    LET d     == IF delayD = 0 THEN 1000 ELSE delayD
        delay == Rat(1000 * delayN, d)
    IN  IF RatLeq(delay, RatInt(10)) THEN RatInt(100) ELSE delay

\* lines 63-67: the delay of a frame from the fcTL numerator and denominator
FrameDelay(delayN, delayD) ==
    LET d     == IF delayD = 0 THEN 100 ELSE delayD
        delay == Rat(1000 * delayN, d)
    IN  IF RatLeq(delay, RatInt(10)) THEN RatInt(100) ELSE delay

\* if (frame) anim.frames.push(frame)
PushFrame(a, fr) ==
    IF fr = << >> THEN a ELSE [a EXCEPT !.frames = Append(@, fr[1])]

CaseIHDR(st, buf, o, length) ==
    [st EXCEPT !.hdr = View(Len(buf), o + 8, o + 8 + length),
               !.anim.width = readDWord(buf, o + 8),
               !.anim.height = readDWord(buf, o + 12)]

CaseAcTL(st, buf, o, length) ==
    [st EXCEPT !.anim.numPlays = readDWord(buf, o + 8 + 4)]

\* an fcTL case that starts the new frame without keeping the one in progress
CaseFcTLDropsFrame(st, buf, o, length) ==
    LET delay == FrameDelay(readWord(buf, o + 8 + 20), readWord(buf, o + 8 + 22))
        new == [ width     |-> readDWord(buf, o + 8 + 4),
                 height    |-> readDWord(buf, o + 8 + 8),
                 left      |-> readDWord(buf, o + 8 + 12),
                 top       |-> readDWord(buf, o + 8 + 16),
                 delay     |-> delay,
                 disposeOp |-> readByte(buf, o + 8 + 24),
                 blendOp   |-> readByte(buf, o + 8 + 25),
                 dataParts |-> << >> ]
    IN  [st EXCEPT !.anim.playTime = RatAdd(@, delay),
                   !.frame = << new >>]

CaseFcTL(st, buf, o, length) ==
    LET delay == FrameDelay(readWord(buf, o + 8 + 20), readWord(buf, o + 8 + 22))
        pushed == PushFrame(st.anim, st.frame)
        new == [ width     |-> readDWord(buf, o + 8 + 4),
                 height    |-> readDWord(buf, o + 8 + 8),
                 left      |-> readDWord(buf, o + 8 + 12),
                 top       |-> readDWord(buf, o + 8 + 16),
                 delay     |-> delay,
                 disposeOp |-> readByte(buf, o + 8 + 24),
                 blendOp   |-> readByte(buf, o + 8 + 25),
                 dataParts |-> << >> ]
    IN  [st EXCEPT !.anim = [pushed EXCEPT !.playTime = RatAdd(@, delay)],
                   !.frame = << new >>]

\* an fdAT case that keeps the sequence number in the data part
CaseFdATWithSequence(st, buf, o, length) ==
    IF st.frame # << >>
    THEN [st EXCEPT !.frame[1].dataParts =
                        Append(@, View(Len(buf), o + 8, o + 8 + length))]
    ELSE st

CaseFdAT(st, buf, o, length) ==
    IF st.frame # << >>
    THEN [st EXCEPT !.frame[1].dataParts =
                        Append(@, View(Len(buf), o + 8 + 4, o + 8 + length))]
    ELSE st

\* an IDAT case whose default frame adds nothing to the play time
CaseIDATUntimed(st, buf, o, length) ==
    IF st.frame # << >>
    THEN [st EXCEPT !.frame[1].dataParts =
                        Append(@, View(Len(buf), o + 8, o + 8 + length))]
    ELSE LET new == [ width     |-> st.anim.width,
                      height    |-> st.anim.height,
                      left      |-> 0,
                      top       |-> 0,
                      delay     |-> RatInt(100),
                      disposeOp |-> 1,
                      blendOp   |-> 1,
                      dataParts |-> << View(Len(buf), o + 8, o + 8 + length) >> ]
         IN  [st EXCEPT !.frame = << new >>]

\* an IDAT case whose default frame has dispose and blend codes 0
CaseIDATDisposeNone(st, buf, o, length) ==
    IF st.frame # << >>
    THEN [st EXCEPT !.frame[1].dataParts =
                        Append(@, View(Len(buf), o + 8, o + 8 + length))]
    ELSE LET new == [ width     |-> st.anim.width,
                      height    |-> st.anim.height,
                      left      |-> 0,
                      top       |-> 0,
                      delay     |-> RatInt(100),
                      disposeOp |-> 0,
                      blendOp   |-> 0,
                      dataParts |-> << View(Len(buf), o + 8, o + 8 + length) >> ]
         IN  [st EXCEPT !.anim.playTime = RatAdd(@, RatInt(100)),
                        !.frame = << new >>]

CaseIDAT(st, buf, o, length) ==
    IF st.frame # << >>
    THEN [st EXCEPT !.frame[1].dataParts =
                        Append(@, View(Len(buf), o + 8, o + 8 + length))]
    ELSE LET new == [ width     |-> st.anim.width,
                      height    |-> st.anim.height,
                      left      |-> 0,
                      top       |-> 0,
                      delay     |-> RatInt(100),
                      disposeOp |-> 1,
                      blendOp   |-> 1,
                      dataParts |-> << View(Len(buf), o + 8, o + 8 + length) >> ]
         IN  [st EXCEPT !.anim.playTime = RatAdd(@, RatInt(100)),
                        !.frame = << new >>]

CaseIEND(st, buf, o, length) ==
    [st EXCEPT !.post = Append(@, subBuffer(buf, o, 12 + length))]

\* a default case that keeps the payload of the chunk only
CaseDefaultPayloadOnly(st, buf, o, length) ==
    [st EXCEPT !.pre = Append(@, subBuffer(buf, o + 8, length))]

CaseDefault(st, buf, o, length) ==
    [st EXCEPT !.pre = Append(@, subBuffer(buf, o, 12 + length))]

ExtractCallback(st, type, buf, o, length) ==
    CASE type = IHDR -> CaseIHDR(st, buf, o, length)
      [] type = acTL -> CaseAcTL(st, buf, o, length)
      [] type = fcTL -> CaseFcTL(st, buf, o, length)
      [] type = fdAT -> CaseFdAT(st, buf, o, length)
      [] type = IDAT -> CaseIDAT(st, buf, o, length)
      [] type = IEND -> CaseIEND(st, buf, o, length)
      [] OTHER -> CaseDefault(st, buf, o, length)

\* one iteration of parseChunks in the extraction pass; the visitor returns true
ExtractStep ==
    /\ pc = "extract"
    /\ LET length == ChunkLength(bytes, off)
           type   == ChunkType(bytes, off)
           st     == ExtractCallback(VisitorState, type, bytes, off, length)
       IN  /\ anim' = st.anim
           /\ frame' = st.frame
           /\ headerDataBytes' = st.hdr
           /\ preDataParts' = st.pre
           /\ postDataParts' = st.post
           /\ visited' = Append(visited, << type, off, length >>)
           /\ off' = NextOff(bytes, off)
           /\ pc' = IF GoesOn(TRUE, type, NextOff(bytes, off), bytes)
                    THEN "extract" ELSE "extracted"
    /\ UNCHANGED << chunks, input, bytes, ignoreSingle, forceLoop, promise, reason,
                    isAnimated, scanVisited, f, createdImages, urls, revoked >>

(***************************************************************************)
(* Lines 100-113: the last frame is finalized and the play count settled.  *)
(***************************************************************************)
\* the play count with the forced loop applied to a single frame too
PlayCountForceFirst(a, force) ==
    IF force THEN 0
    ELSE IF Len(a.frames) <= 1 THEN 1 ELSE a.numPlays

\* lines 102-109, the play count of an animation that is not rejected
PlayCount(a, force) ==
    IF Len(a.frames) <= 1 THEN 1
    ELSE IF force THEN 0 ELSE a.numPlays

\* the test of line 102 with < for <=
RejectsEmptyOnly(a, ignore) == Len(a.frames) < 1 /\ ignore

\* line 102-103: too few frames for a caller that wants animations only
RejectsAfterExtract(a, ignore) == Len(a.frames) <= 1 /\ ignore

PostProcess ==
    /\ pc = "extracted"
    /\ LET a == PushFrame(anim, frame)
       IN  IF RejectsAfterExtract(a, ignoreSingle)
           THEN /\ anim' = a
                /\ promise' = "rejected"
                /\ reason' = NotAnimatedError
                /\ pc' = "returned"
                /\ UNCHANGED << f, createdImages >>
           ELSE /\ anim' = [a EXCEPT !.numPlays = PlayCount(a, forceLoop)]
                /\ createdImages' = 0
                /\ f' = 0
                /\ pc' = IF 0 < Len(a.frames) THEN "synth" ELSE "returned"
                /\ UNCHANGED << promise, reason >>
    /\ UNCHANGED << chunks, input, bytes, ignoreSingle, forceLoop, isAnimated, off,
                    scanVisited, visited, preDataParts, postDataParts,
                    headerDataBytes, frame, urls, revoked >>


(***************************************************************************)
(* Lines 114-148: one iteration of the frame synthesis loop.               *)
(***************************************************************************)
\* TypedArray.prototype.set(array, offset) through a view that starts at `at`
WriteAt(buf, at, array) ==
    [i \in 1..Len(buf) |->
        IF i > at /\ i <= at + Len(array) THEN array[i - at] ELSE buf[i]]

\* lines 119-120: the width and height of the frame written into the header
\* template, which is a view of the caller's buffer
\* a rewrite that leaves the height of the frame before in the template
RewriteHeaderWidthOnly(buf, hdr, fr) ==
    WriteAt(buf, hdr[1], makeDWordArray(fr.width))

RewriteHeader(buf, hdr, fr) ==
    WriteAt(WriteAt(buf, hdr[1], makeDWordArray(fr.width)),
            hdr[1] + 4, makeDWordArray(fr.height))

\* lines 123-125: one IDAT chunk per data part
DataChunks(buf, parts) ==
    [j \in 1..Len(parts) |-> makeChunkBytes(IDAT, Deref(buf, parts[j]))]

\* the parts of the blob with the prologue after the pixel data
FrameStreamDataFirst(buf, hdr, pre, parts, post) ==
    PNG_SIGNATURE_BYTES
        \o makeChunkBytes(IHDR, Deref(buf, hdr))
        \o Concat(DataChunks(buf, parts))
        \o Concat(pre)
        \o Concat(post)

\* lines 117-127: the parts of the blob of one frame, in order
FrameStream(buf, hdr, pre, parts, post) ==
    PNG_SIGNATURE_BYTES
        \o makeChunkBytes(IHDR, Deref(buf, hdr))
        \o Concat(pre)
        \o Concat(DataChunks(buf, parts))
        \o Concat(post)

\* lines 128 and 136-147: dataParts deleted, the image created and given its URL
\* the image created and given its URL, with dataParts left in the frame
WithImageKeepsParts(fr, url) ==
    [k \in DOMAIN fr \cup {"img"} |->
        IF k = "img" THEN [ src |-> url, state |-> "loading" ] ELSE fr[k]]

WithImage(fr, url) ==
    [k \in (DOMAIN fr \ {"dataParts"}) \cup {"img"} |->
        IF k = "img" THEN [ src |-> url, state |-> "loading" ] ELSE fr[k]]

ViewLen(view) == view[2] - view[1]

\* an exception thrown inside the executor rejects the promise
Throw(error) ==
    /\ promise' = IF promise = "pending" THEN "rejected" ELSE promise
    /\ reason' = IF promise = "pending" THEN error ELSE reason
    /\ pc' = "returned"

SynthFrame ==
    /\ pc = "synth"
    /\ LET fr == anim.frames[f + 1]
       IN  IF headerDataBytes = << >>
           THEN /\ Throw(TypeErrorThrown)
                /\ frame' = << fr >>
                /\ UNCHANGED << bytes, anim, f, urls >>
           ELSE IF ViewLen(headerDataBytes) < 4
           THEN /\ Throw(RangeErrorThrown)
                /\ frame' = << fr >>
                /\ UNCHANGED << bytes, anim, f, urls >>
           ELSE IF ViewLen(headerDataBytes) < 8
           THEN /\ Throw(RangeErrorThrown)
                /\ bytes' = WriteAt(bytes, headerDataBytes[1], makeDWordArray(fr.width))
                /\ frame' = << fr >>
                /\ UNCHANGED << anim, f, urls >>
           ELSE LET buf    == RewriteHeader(bytes, headerDataBytes, fr)
                    stream == FrameStream(buf, headerDataBytes, preDataParts,
                                          fr.dataParts, postDataParts)
                    done   == WithImage(fr, f)
                IN  /\ bytes' = buf
                    /\ urls' = Append(urls, stream)
                    /\ anim' = [anim EXCEPT !.frames[f + 1] = done]
                    /\ frame' = << done >>
                    /\ f' = f + 1
                    /\ pc' = IF f + 1 < Len(anim.frames) THEN "synth" ELSE "returned"
                    /\ UNCHANGED << promise, reason >>
    /\ UNCHANGED << chunks, input, ignoreSingle, forceLoop, isAnimated, off,
                    scanVisited, visited, preDataParts, postDataParts,
                    headerDataBytes, createdImages, revoked >>

(***************************************************************************)
(* The callbacks of the images (lines 137-146).  The browser runs them     *)
(* after the executor has returned, once per image, in any order.          *)
(***************************************************************************)
Loading(i) ==
    /\ pc = "returned"
    /\ i \in 1..Len(anim.frames)
    /\ "img" \in DOMAIN anim.frames[i]
    /\ anim.frames[i].img.state = "loading"

\* resolve(anim) and reject(reason) settle a promise that is still pending
Settle(how, why) ==
    /\ promise' = IF promise = "pending" THEN how ELSE promise
    /\ reason' = IF promise = "pending" THEN why ELSE reason

\* the test of line 140 satisfied by the first image that loads
AnyCreated(created, a) == created >= 1

\* line 140: all images have loaded
AllCreated(created, a) == created = Len(a.frames)

OnLoad(i) ==
    /\ Loading(i)
    /\ anim' = [anim EXCEPT !.frames[i].img.state = "loaded"]
    /\ revoked' = revoked \cup {anim.frames[i].img.src}
    /\ createdImages' = createdImages + 1
    /\ IF AllCreated(createdImages + 1, anim)
       THEN Settle("resolved", "")
       ELSE UNCHANGED << promise, reason >>
    /\ UNCHANGED << chunks, input, bytes, ignoreSingle, forceLoop, pc, isAnimated,
                    off, scanVisited, visited, preDataParts, postDataParts,
                    headerDataBytes, frame, f, urls >>

OnError(i) ==
    /\ Loading(i)
    /\ anim' = [anim EXCEPT !.frames[i].img.state = "error"]
    /\ Settle("rejected", ImageCreationError)
    /\ UNCHANGED << chunks, input, bytes, ignoreSingle, forceLoop, pc, isAnimated,
                    off, scanVisited, visited, preDataParts, postDataParts,
                    headerDataBytes, frame, f, createdImages, urls, revoked >>

Next ==
    \/ PreScanStep
    \/ PreScanEnd
    \/ ExtractStep
    \/ PostProcess
    \/ SynthFrame
    \/ \E i \in 1..MaxChunks : OnLoad(i)
    \/ \E i \in 1..MaxChunks : OnError(i)

Spec == Init /\ [][Next]_vars


(***************************************************************************)
(* What the input says, read off the list of chunks it was built from      *)
(* (and not off the parser's state).                                       *)
(***************************************************************************)
\* the number of chunks up to and including the first IEND
WalkEnd(tags) ==
    IF \E i \in 1..Len(tags) : tags[i] = IEND
    THEN CHOOSE i \in 1..Len(tags) :
            tags[i] = IEND /\ \A j \in 1..(i - 1) : tags[j] # IEND
    ELSE Len(tags)

\* an acTL chunk that a walk from the start meets
HasAcTL(tags) == \E i \in 1..WalkEnd(tags) : tags[i] = acTL

\* the offset in the buffer of the chunk at position i
RECURSIVE OffsetOf(_, _)
OffsetOf(tags, i) ==
    IF i = 1 THEN 8
    ELSE OffsetOf(tags, i - 1) + Len(InputChunk[tags[i - 1]][i - 1])

\* the extraction pass has run to its end and the last frame is finalized
Extracted == pc \in {"synth", "returned"} /\ visited # << >>

\* the number of visits of the extraction pass with the given tag
Visits(type) == Cardinality({k \in 1..Len(visited) : visited[k][1] = type})

HasImage(fr) == "img" \in DOMAIN fr

ImageState(fr) == IF HasImage(fr) THEN fr.img.state ELSE "none"

NoLoading == \A i \in 1..Len(anim.frames) : ImageState(anim.frames[i]) # "loading"

(***************************************************************************)
(* C1  All-or-nothing completion.  Whatever the order of the onload and    *)
(* onerror callbacks, the promise is resolved only when every frame of     *)
(* Animation.frames has an image that reported success, and once an image  *)
(* has reported failure the promise is rejected (so it is never resolved   *)
(* in a run with a failure).                                               *)
(***************************************************************************)
C1_AllOrNothing ==
    /\ promise = "resolved" =>
          \A i \in 1..Len(anim.frames) : ImageState(anim.frames[i]) = "loaded"
    /\ (\E i \in 1..Len(anim.frames) : ImageState(anim.frames[i]) = "error") =>
          promise = "rejected"

\* two or more frames, every image loaded, and the promise resolved
C1_Witness ==
    /\ promise = "resolved"
    /\ Len(anim.frames) >= 2
    /\ createdImages = Len(anim.frames)

(***************************************************************************)
(* C2  Eventual settlement.  For an input of one or more chunks, when the  *)
(* executor has returned and every dispatched decode has reported, the     *)
(* promise is resolved or rejected.  (Nothing is left then that could      *)
(* settle it later: a promise that is pending there is pending forever.)   *)
(***************************************************************************)
C2_SettledWhenQuiet ==
    (Len(chunks) >= 1 /\ pc = "returned" /\ NoLoading) => promise # "pending"

(***************************************************************************)
(* C3 as stated.  After the extraction pass the number of frames is the    *)
(* number of fcTL chunks visited, except that an input with IDAT chunks    *)
(* and no fcTL chunk has exactly one frame.                                *)
(***************************************************************************)
C3_FrameCountAsStated ==
    Extracted =>
        Len(anim.frames) =
            IF (\E i \in 1..Len(chunks) : chunks[i] = IDAT)
                  /\ ~(\E i \in 1..Len(chunks) : chunks[i] = fcTL)
            THEN 1
            ELSE Visits(fcTL)

\* an IDAT chunk is visited before any fcTL chunk is: it starts a default frame
DefaultFrameStarted ==
    \E k \in 1..Len(visited) :
        /\ visited[k][1] = IDAT
        /\ \A j \in 1..(k - 1) : visited[j][1] # fcTL

(***************************************************************************)
(* C3 amended.  After the extraction pass the number of frames is the      *)
(* number of fcTL chunks visited, plus one when an IDAT chunk was visited  *)
(* before the first fcTL chunk visited (or with no fcTL chunk visited).    *)
(***************************************************************************)
C3_FrameCount ==
    Extracted =>
        Len(anim.frames) = Visits(fcTL) + (IF DefaultFrameStarted THEN 1 ELSE 0)

\* a default frame followed by a frame of an fcTL chunk
C3_Witness ==
    /\ Extracted
    /\ DefaultFrameStarted
    /\ Visits(fcTL) >= 1
    /\ Len(anim.frames) = Visits(fcTL) + 1

(***************************************************************************)
(* C4  Pre-scan rejection ordering.  With ignoreSingle set and no acTL     *)
(* chunk met by the pre-scan, once the pre-scan is over the promise is     *)
(* rejected as not animated and nothing of the extraction or the synthesis *)
(* has happened or ever happens: the Animation is as constructed, no frame *)
(* exists, no chunk was visited by the extraction pass, the buffer is      *)
(* unchanged and no stream was dispatched.                                 *)
(***************************************************************************)
C4_PreScanReject ==
    (ignoreSingle /\ ~HasAcTL(chunks) /\ pc \notin {"prescan", "prescanned"}) =>
        /\ promise = "rejected"
        /\ reason = NotAnimatedError
        /\ pc = "returned"
        /\ visited = << >>
        /\ anim = NewAnimation
        /\ frame = << >>
        /\ headerDataBytes = << >>
        /\ preDataParts = << >>
        /\ postDataParts = << >>
        /\ bytes = input
        /\ urls = << >>

\* a rejected input that has frames, and an acTL chunk only after IEND
C4_Witness ==
    /\ ignoreSingle
    /\ ~HasAcTL(chunks)
    /\ pc = "returned"
    /\ promise = "rejected"
    /\ \E i \in 1..Len(chunks) : chunks[i] = fcTL
    /\ \E i \in 1..Len(chunks) : chunks[i] = acTL

(***************************************************************************)
(* C5  ignoreSingle guarantee.  With ignoreSingle set, a resolved promise  *)
(* means an input with an acTL chunk and at least two frames; and an       *)
(* extraction that ends with zero or one frame is rejected as not          *)
(* animated, with no stream dispatched.                                    *)
(***************************************************************************)
C5_IgnoreSingle ==
    ignoreSingle =>
        /\ promise = "resolved" => (HasAcTL(chunks) /\ Len(anim.frames) >= 2)
        /\ (Extracted /\ Len(anim.frames) <= 1) =>
              /\ promise = "rejected"
              /\ reason = NotAnimatedError
              /\ urls = << >>
              /\ \A i \in 1..Len(anim.frames) : ~HasImage(anim.frames[i])

\* an animated input with a single frame, rejected after the extraction
C5_Witness ==
    /\ ignoreSingle
    /\ HasAcTL(chunks)
    /\ Extracted
    /\ Len(anim.frames) = 1
    /\ promise = "rejected"
    /\ reason = NotAnimatedError


(***************************************************************************)
(* The frames the input describes, read off the list of chunks.            *)
(***************************************************************************)
\* the chunk at position i starts a frame: an fcTL chunk, or the first IDAT
\* chunk when no fcTL chunk precedes it
StartsFrame(tags, i) ==
    \/ tags[i] = fcTL
    \/ /\ tags[i] = IDAT
       /\ \A j \in 1..(i - 1) : tags[j] \notin {fcTL, IDAT}

\* the positions among the first m chunks that start a frame, ascending
RECURSIVE FrameStarts(_, _)
FrameStarts(tags, m) ==
    IF m = 0 THEN << >>
    ELSE IF StartsFrame(tags, m) THEN Append(FrameStarts(tags, m - 1), m)
    ELSE FrameStarts(tags, m - 1)

\* the frames that exist so far: the finalized ones and the one in progress
FramesSoFar ==
    IF pc \in {"extract", "extracted"} THEN anim.frames \o frame ELSE anim.frames

\* the frame starts among the chunks the extraction pass has visited so far
StartsSoFar == FrameStarts(chunks, Min(Len(visited), Len(chunks)))

\* delay_num and delay_den of the fcTL chunk at position p
DelayNum(p) == Pick(FcTLFields, p)[5]
DelayDen(p) == Pick(FcTLFields, p)[6]

\* every frame so far is the frame of one frame start, in order
FramesMatchStarts == Len(FramesSoFar) = Len(StartsSoFar)

(***************************************************************************)
(* C6  Play-count policy.  Once the post-processing has let the Animation  *)
(* through (and so in every resolved Animation): numPlays is 1 with at     *)
(* most one frame; 0 with two or more frames and forceLoop; and, with two  *)
(* or more frames and no forceLoop, the value of the last acTL chunk       *)
(* visited.                                                                *)
(***************************************************************************)
\* the position of the last acTL chunk the extraction pass visits
LastAcTL(tags) ==
    CHOOSE i \in 1..WalkEnd(tags) :
        tags[i] = acTL /\ \A j \in (i + 1)..WalkEnd(tags) : tags[j] # acTL

PolicyApplied == Extracted /\ ~(ignoreSingle /\ Len(anim.frames) <= 1)

C6_PlayCount ==
    /\ promise = "resolved" => PolicyApplied
    /\ PolicyApplied =>
          /\ Len(anim.frames) <= 1 => anim.numPlays = 1
          /\ (Len(anim.frames) >= 2 /\ forceLoop) => anim.numPlays = 0
          /\ (Len(anim.frames) >= 2 /\ ~forceLoop /\ HasAcTL(chunks)) =>
                anim.numPlays = Pick(AcTLPlays, LastAcTL(chunks))

\* a resolved animation of two frames that keeps the declared play count
C6_Witness ==
    /\ promise = "resolved"
    /\ Len(anim.frames) >= 2
    /\ ~forceLoop
    /\ HasAcTL(chunks)
    /\ anim.numPlays = Pick(AcTLPlays, LastAcTL(chunks))
    /\ anim.numPlays > 1

(***************************************************************************)
(* C7  Delay rule and positivity.  A frame made from an fcTL chunk with    *)
(* numerator N and denominator D has delay 1000*N/D' (D' = 100 if D = 0,   *)
(* else D) when that is greater than 10 and delay 100 otherwise; a default *)
(* frame has delay 100; every delay is positive.                           *)
(***************************************************************************)
DelayRule(p, delay) ==
    LET N == DelayNum(p)
        D == IF DelayDen(p) = 0 THEN 100 ELSE DelayDen(p)
    IN  IF 1000 * N > 10 * D
        THEN delay[1] * D = 1000 * N * delay[2]
        ELSE delay = << 100, 1 >>

C7_DelayRule ==
    /\ FramesMatchStarts
    /\ \A k \in 1..Len(FramesSoFar) :
          LET p     == StartsSoFar[k]
              delay == FramesSoFar[k].delay
          IN  /\ delay[1] > 0 /\ delay[2] > 0
              /\ IF chunks[p] = fcTL THEN DelayRule(p, delay)
                 ELSE delay = << 100, 1 >>

\* a frame with a delay that is not a whole number, next to a clamped one
C7_Witness ==
    /\ Extracted
    /\ \E k \in 1..Len(anim.frames) : anim.frames[k].delay[2] > 1
    /\ \E k \in 1..Len(anim.frames) :
          /\ chunks[StartsSoFar[k]] = fcTL
          /\ 1000 * DelayNum(StartsSoFar[k]) = 10 * DelayDen(StartsSoFar[k])
          /\ anim.frames[k].delay = << 100, 1 >>

(***************************************************************************)
(* C8 as stated.  An fcTL chunk with denominator 0 gives delay 100 for any *)
(* numerator; N = 1, D = 100 gives 100; N = 100, D = 100 gives 1000.       *)
(***************************************************************************)
C8_DelayCasesAsStated ==
    \A k \in 1..Min(Len(FramesSoFar), Len(StartsSoFar)) :
        LET p     == StartsSoFar[k]
            delay == FramesSoFar[k].delay
        IN  chunks[p] = fcTL =>
              /\ DelayDen(p) = 0 => delay = << 100, 1 >>
              /\ (DelayNum(p) = 1 /\ DelayDen(p) = 100) => delay = << 100, 1 >>
              /\ (DelayNum(p) = 100 /\ DelayDen(p) = 100) => delay = << 1000, 1 >>

(***************************************************************************)
(* C8 amended.  An fcTL chunk with denominator 0 gives delay 100 when the  *)
(* numerator is 0 or 1 and delay 10*N when the numerator N is 2 or more;   *)
(* N = 1, D = 100 gives 100; N = 100, D = 100 gives 1000.                  *)
(***************************************************************************)
C8_DelayCases ==
    \A k \in 1..Min(Len(FramesSoFar), Len(StartsSoFar)) :
        LET p     == StartsSoFar[k]
            delay == FramesSoFar[k].delay
        IN  chunks[p] = fcTL =>
              /\ (DelayDen(p) = 0 /\ DelayNum(p) <= 1) => delay = << 100, 1 >>
              /\ (DelayDen(p) = 0 /\ DelayNum(p) >= 2) => delay = << 10 * DelayNum(p), 1 >>
              /\ (DelayNum(p) = 1 /\ DelayDen(p) = 100) => delay = << 100, 1 >>
              /\ (DelayNum(p) = 100 /\ DelayDen(p) = 100) => delay = << 1000, 1 >>

\* frames of the three kinds: D = 0 with N = 2, N = 1 and D = 100, N = D = 100
C8_Witness ==
    /\ Extracted
    /\ Len(anim.frames) = Len(StartsSoFar)
    /\ \E k \in 1..Len(anim.frames) :
          /\ chunks[StartsSoFar[k]] = fcTL
          /\ DelayDen(StartsSoFar[k]) = 0 /\ DelayNum(StartsSoFar[k]) = 2
          /\ anim.frames[k].delay = << 20, 1 >>
    /\ \E k \in 1..Len(anim.frames) :
          /\ chunks[StartsSoFar[k]] = fcTL
          /\ DelayDen(StartsSoFar[k]) = 100 /\ DelayNum(StartsSoFar[k]) = 1
          /\ anim.frames[k].delay = << 100, 1 >>
    /\ \E k \in 1..Len(anim.frames) :
          /\ chunks[StartsSoFar[k]] = fcTL
          /\ DelayDen(StartsSoFar[k]) = 100 /\ DelayNum(StartsSoFar[k]) = 100
          /\ anim.frames[k].delay = << 1000, 1 >>


(***************************************************************************)
(* C9  Chunk walk.  For a buffer of one or more well-formed chunks, the    *)
(* extraction pass (whose visitor always returns true) calls the visitor   *)
(* once per chunk, in file order, with the chunk's offset and length, for  *)
(* every chunk up to and including the first IEND (or the last chunk); the *)
(* sum of 12 + length over the visited chunks is the final offset minus 8; *)
(* and the pre-scan stops after the first chunk its visitor refuses        *)
(* (acTL).                                                                 *)
(***************************************************************************)
\* the visit the chunk at position k is due
ChunkVisit(tags, k) == << tags[k], OffsetOf(tags, k), Len(Payload(tags[k], k)) >>

\* the visits made are those due to the first chunks, in order
VisitsInOrder(trace, tags) ==
    /\ Len(trace) <= Len(tags)
    /\ \A k \in 1..Len(trace) : trace[k] = ChunkVisit(tags, k)

\* the number of chunks up to and including the first acTL or IEND
ScanEnd(tags) ==
    IF \E i \in 1..Len(tags) : tags[i] \in {acTL, IEND}
    THEN CHOOSE i \in 1..Len(tags) :
            tags[i] \in {acTL, IEND} /\ \A j \in 1..(i - 1) : tags[j] \notin {acTL, IEND}
    ELSE Len(tags)

RECURSIVE SumVisited(_, _)
SumVisited(trace, k) ==
    IF k = 0 THEN 0 ELSE SumVisited(trace, k - 1) + 12 + trace[k][3]

C9_ChunkWalk ==
    Len(chunks) >= 1 =>
        /\ VisitsInOrder(visited, chunks)
        /\ VisitsInOrder(scanVisited, chunks)
        /\ pc # "prescan" => Len(scanVisited) = ScanEnd(chunks)
        /\ pc = "prescanned" => SumVisited(scanVisited, Len(scanVisited)) = off - 8
        /\ (pc \in {"extracted", "synth", "returned"} /\ visited # << >>) =>
              /\ Len(visited) = WalkEnd(chunks)
              /\ SumVisited(visited, Len(visited)) = off - 8

\* an extraction pass that ended at an IEND chunk with a chunk left behind it,
\* after a pre-scan that stopped earlier, at an acTL chunk
C9_Witness ==
    /\ pc = "extracted"
    /\ Len(visited) = 3
    /\ Len(chunks) = 4
    /\ visited[3][1] = IEND
    /\ Len(scanVisited) = 2
    /\ SumVisited(visited, 3) = off - 8

(***************************************************************************)
(* C10  Synthesized stream layout.  The stream of every frame is, in this  *)
(* order: the PNG signature; one IHDR chunk whose payload is the original  *)
(* IHDR payload with bytes 0..3 the frame's width and bytes 4..7 its       *)
(* height; the prologue chunks verbatim, in the order met; one IDAT chunk  *)
(* per data part of the frame, in the order met, with the part's length in *)
(* the length field (the parts of fdAT chunks without their sequence       *)
(* number); the epilogue chunks verbatim.  (The four CRC bytes of the      *)
(* IHDR and IDAT chunks are not constrained here.)                         *)
(***************************************************************************)
AnyByte == 0 - 1

\* length, tag and payload of a chunk, with its CRC bytes left open
ChunkLayout(type, payload) ==
    makeDWordArray(Len(payload)) \o type \o payload
        \o << AnyByte, AnyByte, AnyByte, AnyByte >>

Matches(stream, layout) ==
    /\ Len(stream) = Len(layout)
    /\ \A i \in 1..Len(layout) : layout[i] = AnyByte \/ layout[i] = stream[i]

\* the position of the last IHDR chunk the extraction pass visits
LastIHDR(tags) ==
    CHOOSE i \in 1..WalkEnd(tags) :
        tags[i] = IHDR /\ \A j \in (i + 1)..WalkEnd(tags) : tags[j] # IHDR

\* the original IHDR payload with the width and height of the frame
HeaderFor(tags, fr) ==
    makeDWordArray(fr.width) \o makeDWordArray(fr.height)
        \o SubSeq(Payload(IHDR, LastIHDR(tags)), 9, 13)

\* the chunks among positions lo..hi that satisfy Keep, concatenated
RECURSIVE Gather(_, _, _, _)
Gather(Keep(_), Piece(_), lo, hi) ==
    IF lo > hi THEN << >>
    ELSE (IF Keep(lo) THEN Piece(lo) ELSE << >>) \o Gather(Keep, Piece, lo + 1, hi)

IsPrologue(type) == type \notin {IHDR, acTL, fcTL, fdAT, IDAT, IEND}

\* the pixel data the chunk at position i carries
PixelData(tags, i) ==
    IF tags[i] = IDAT THEN Payload(IDAT, i)
    ELSE SubSeq(Payload(fdAT, i), 5, Len(Payload(fdAT, i)))

ExpectedLayout(tags, k, fr) ==
    LET m      == WalkEnd(tags)
        starts == FrameStarts(tags, m)
        p      == starts[k]
        q      == IF k < Len(starts) THEN starts[k + 1] ELSE m + 1
        Verbatim(i) == InputChunk[tags[i]][i]
        IsPro(i)   == IsPrologue(tags[i])
        IsEpi(i)   == tags[i] = IEND
        IsData(i)  == tags[i] = IDAT \/ (tags[i] = fdAT /\ i > p)
        Data(i)    == ChunkLayout(IDAT, PixelData(tags, i))
    IN  PNG_SIGNATURE_BYTES
            \o ChunkLayout(IHDR, HeaderFor(tags, fr))
            \o Gather(IsPro, Verbatim, 1, m)
            \o Gather(IsData, Data, p, q - 1)
            \o Gather(IsEpi, Verbatim, 1, m)

C10_StreamLayout ==
    /\ Len(urls) = Cardinality({k \in 1..Len(anim.frames) : HasImage(anim.frames[k])})
    /\ \A k \in 1..Len(urls) :
          /\ HasImage(anim.frames[k])
          /\ anim.frames[k].img.src = k - 1
          /\ Matches(urls[k], ExpectedLayout(chunks, k, anim.frames[k]))

\* the stream of a frame that has a prologue chunk, pixel data and the epilogue
C10_Witness ==
    /\ Len(urls) >= 1
    /\ preDataParts # << >>
    /\ postDataParts # << >>
    /\ Len(urls[1]) > 8 + 25 + Len(preDataParts[1]) + 12 + Len(postDataParts[1])


(***************************************************************************)
(* The chunks of a dispatched stream, found by walking its length fields.  *)
(***************************************************************************)
\* the offsets of the chunks of a stream, from offset o on
RECURSIVE ChunkOffsets(_, _)
ChunkOffsets(stream, o) ==
    IF o >= Len(stream) THEN << >>
    ELSE << o >> \o ChunkOffsets(stream, NextOff(stream, o))

\* the chunk at offset o lies within the stream, and its last four bytes are
\* the CRC of its tag and payload bytes
ChecksumRight(stream, o) ==
    LET length == ChunkLength(stream, o)
    IN  /\ o + 12 + length <= Len(stream)
        /\ Slice(stream, o + 8 + length, o + 12 + length)
              = crc32(stream, o + 4, 4 + length)

\* the chunks makeChunkBytes built are the IHDR and the IDAT chunks of a stream
Rewrapped(stream, o) == ChunkType(stream, o) \in {IHDR, IDAT}

\* the number of data parts the frame made from the frame start at position p has
RECURSIVE PartsOf(_, _, _)
PartsOf(tags, p, i) ==
    IF i > WalkEnd(tags) \/ (i > p /\ tags[i] = fcTL) THEN 0
    ELSE (IF tags[i] = IDAT \/ (tags[i] = fdAT /\ i > p) THEN 1 ELSE 0)
            + PartsOf(tags, p, i + 1)

(***************************************************************************)
(* C11  Checksum correctness.  Every stream, at the step that dispatches   *)
(* it, starts with the rewritten IHDR chunk and has one IDAT chunk per     *)
(* data part of the frame, and each of these chunks starts with the length *)
(* of its payload and ends, right after the payload, with the big-endian   *)
(* CRC-32 of its four tag bytes followed by its payload bytes; a stream    *)
(* that was dispatched is never changed.                                   *)
(***************************************************************************)
\* the chunks that makeChunkBytes built for the stream of the k-th frame
StreamChecksums(stream, k) ==
    LET offs == ChunkOffsets(stream, 8)
        made == {j \in 1..Len(offs) : Rewrapped(stream, offs[j])}
    IN  /\ offs # << >>
        /\ 1 \in made
        /\ ChunkType(stream, 8) = IHDR
        /\ Cardinality(made) = 1 + PartsOf(chunks, StartsSoFar[k], StartsSoFar[k])
        /\ \A j \in made : ChecksumRight(stream, offs[j])

ChecksumsAtDispatch ==
    /\ Len(urls') >= Len(urls)
    /\ \A k \in 1..Len(urls') :
          IF k <= Len(urls) THEN urls'[k] = urls[k]
          ELSE StreamChecksums(urls'[k], k)

C11_Checksums == [][ChecksumsAtDispatch]_vars

\* a stream with the rewritten header and two re-wrapped data chunks, one of
\* them made from an fdAT chunk
C11_Witness ==
    \E k \in 1..Len(urls) :
        /\ chunks[StartsSoFar[k]] = fcTL
        /\ PartsOf(chunks, StartsSoFar[k], StartsSoFar[k]) = 2
        /\ \E i \in 1..Len(chunks) : chunks[i] = fdAT
        /\ \E i \in 1..Len(chunks) : chunks[i] = IDAT
        /\ Len(ChunkOffsets(urls[k], 8)) >= 3

(***************************************************************************)
(* The prologue and epilogue groups as the input gives them.               *)
(***************************************************************************)
\* the byte ranges of the buffer `buf` that the visits of `trace` with a tag
\* satisfying Keep cover, in order
RECURSIVE RangesOf(_, _, _, _)
RangesOf(Keep(_), trace, buf, k) ==
    IF k > Len(trace) THEN << >>
    ELSE (IF Keep(trace[k][1])
          THEN << Slice(buf, trace[k][2], trace[k][2] + 12 + trace[k][3]) >>
          ELSE << >>) \o RangesOf(Keep, trace, buf, k + 1)

IsEpilogue(type) == type = IEND

\* the bytes of a stream between the rewritten IHDR chunk and the epilogue
PrologueAndData(stream) ==
    Slice(stream, 8 + 12 + ViewLen(headerDataBytes),
          Len(stream) - Len(Concat(postDataParts)))

\* the last bytes of a stream, as many as the epilogue group has
EpilogueOf(stream) ==
    Slice(stream, Len(stream) - Len(Concat(postDataParts)), Len(stream))

(***************************************************************************)
(* C12  Shared-buffer non-mutation.  From the end of the extraction pass   *)
(* on, through every step of the synthesis (header rewrites included), the *)
(* prologue and epilogue groups hold the bytes of the original input at    *)
(* the chunks recorded, in order; and every dispatched stream carries      *)
(* exactly these prologue bytes right after its IHDR chunk and exactly     *)
(* these epilogue bytes at its end, so the streams of any two frames agree *)
(* on them.                                                                *)
(***************************************************************************)
C12_SharedGroups ==
    Extracted =>
        /\ preDataParts = RangesOf(IsPrologue, visited, input, 1)
        /\ postDataParts = RangesOf(IsEpilogue, visited, input, 1)
        /\ \A k \in 1..Len(urls) :
              /\ Slice(PrologueAndData(urls[k]), 0, Len(Concat(preDataParts)))
                    = Concat(preDataParts)
              /\ EpilogueOf(urls[k]) = Concat(postDataParts)

\* two streams of frames of different widths, dispatched after header rewrites
\* that changed the buffer, with a chunk in the prologue group
C12_Witness ==
    /\ Extracted
    /\ Len(urls) >= 2
    /\ bytes # input
    /\ preDataParts # << >>
    /\ Len(preDataParts[1]) > 12
    /\ anim.frames[1].width # anim.frames[2].width

(***************************************************************************)
(* C13  Canvas dimensions fixed by the first header chunk.  Once an IHDR   *)
(* chunk has been visited by the extraction pass, Animation.width and      *)
(* Animation.height are those of the first IHDR chunk visited, in every    *)
(* later state of the extraction and of the synthesis.                     *)
(***************************************************************************)
\* the position of the first IHDR chunk the extraction pass has visited
FirstIHDRVisited ==
    CHOOSE k \in 1..Len(visited) :
        visited[k][1] = IHDR /\ \A j \in 1..(k - 1) : visited[j][1] # IHDR

C13_DimensionsFixed ==
    (\E k \in 1..Len(visited) : visited[k][1] = IHDR) =>
        /\ anim.width = readDWord(input, visited[FirstIHDRVisited][2] + 8)
        /\ anim.height = readDWord(input, visited[FirstIHDRVisited][2] + 12)

(***************************************************************************)
(* C14  playTime accounting.  In every state Animation.playTime is its     *)
(* initial value, 0, plus the delays of the finalized frames and of the    *)
(* frame in progress, added in order (so, when the promise is resolved,    *)
(* the sum of the delays of exactly the frames of Animation.frames); and   *)
(* no step makes it smaller.                                               *)
(***************************************************************************)
\* the delays of the first k frames, added in order
RECURSIVE SumDelays(_, _)
SumDelays(frames, k) ==
    IF k = 0 THEN RatInt(0)
    ELSE RatAdd(SumDelays(frames, k - 1), frames[k].delay)

PlayTimeIsSum ==
    /\ anim.playTime = SumDelays(FramesSoFar, Len(FramesSoFar))
    /\ promise = "resolved" =>
          anim.playTime = SumDelays(anim.frames, Len(anim.frames))

PlayTimeGrows == RatLeq(anim.playTime, anim.playTime')

C14_PlayTime == [](PlayTimeIsSum) /\ [][PlayTimeGrows]_vars

\* a resolved animation of a default frame and two fcTL frames, one of them
\* with a delay that is not a whole number
C14_Witness ==
    /\ promise = "resolved"
    /\ Len(anim.frames) = 3
    /\ chunks[StartsSoFar[1]] = IDAT
    /\ anim.playTime[2] > 1
    /\ anim.playTime = SumDelays(anim.frames, 3)

(***************************************************************************)
(* The data parts the input gives each frame.                              *)
(***************************************************************************)
\* the pixel data of the IDAT and fdAT chunks at positions lo..hi, in order
RECURSIVE PixelParts(_, _, _)
PixelParts(tags, lo, hi) ==
    IF lo > hi THEN << >>
    ELSE (IF tags[lo] \in {IDAT, fdAT} THEN << PixelData(tags, lo) >> ELSE << >>)
            \o PixelParts(tags, lo + 1, hi)

\* the data parts due so far to the k-th frame: those of the chunks visited
\* from its frame start up to the next frame start
PartsDue(k) ==
    LET n == Min(Len(visited), Len(chunks))
        p == StartsSoFar[k]
        q == IF k < Len(StartsSoFar) THEN StartsSoFar[k + 1] - 1 ELSE n
    IN  PixelParts(chunks, p, q)

\* the bytes the data parts of a frame show
PartsHeld(fr) == [j \in 1..Len(fr.dataParts) |-> Deref(bytes, fr.dataParts[j])]

DataPartsRouted ==
    /\ Len(FramesSoFar) = Len(StartsSoFar)
    /\ \A k \in 1..Len(FramesSoFar) :
          "dataParts" \in DOMAIN FramesSoFar[k] =>
              PartsHeld(FramesSoFar[k]) = PartsDue(k)

\* a step of the extraction pass that visits an fdAT chunk with no frame in
\* progress changes nothing of what the visitor builds
OrphanFdATIgnored ==
    (pc = "extract" /\ ChunkType(bytes, off) = fdAT /\ frame = << >>) =>
        UNCHANGED << anim, frame, preDataParts, postDataParts, headerDataBytes >>

(***************************************************************************)
(* C15  Pixel-data routing.  An fdAT chunk visited while no frame is in    *)
(* progress changes no state of the builder; otherwise an fdAT chunk adds  *)
(* its payload without the 4-byte sequence number, and an IDAT chunk its   *)
(* whole payload, to the frame in progress: at every point the data parts  *)
(* of each frame are those of the IDAT and fdAT chunks visited since the   *)
(* frame was started and before the next frame was, in encounter order.    *)
(***************************************************************************)
C15_DataRouting == [](DataPartsRouted) /\ [][OrphanFdATIgnored]_vars

\* an fdAT chunk met before any frame, then a frame with an IDAT part and an
\* fdAT part
C15_Witness ==
    /\ pc = "extracted"
    /\ chunks = << fdAT, fcTL, IDAT, fdAT >>
    /\ frame # << >>
    /\ PartsHeld(frame[1]) = << Payload(IDAT, 3), << 204, 104 >> >>
    /\ anim.frames = << >>

(***************************************************************************)
(* C16  Default frame.  A step that visits an IDAT chunk with no frame in  *)
(* progress starts a frame with the Animation's width and height, left =   *)
(* top = 0, delay 100, disposeOp = blendOp = 1 and the payload of the      *)
(* chunk as its only data part, and finalizes nothing; a step that visits  *)
(* an IDAT chunk with a frame in progress only adds a data part to that    *)
(* frame.  So an input in which the walk meets no fcTL chunk and one or    *)
(* more IDAT chunks ends with exactly one frame, of these values, holding  *)
(* the payloads of all the IDAT chunks in order.                           *)
(***************************************************************************)
\* the payload of the chunk the walker is at
PayloadAtOff == Slice(input, off + 8, off + 8 + ChunkLength(bytes, off))

IsDefaultFrame(fr, a) ==
    /\ fr.width = a.width /\ fr.height = a.height
    /\ fr.left = 0 /\ fr.top = 0
    /\ fr.delay = << 100, 1 >>
    /\ fr.disposeOp = 1 /\ fr.blendOp = 1

DefaultFrameStep ==
    (pc = "extract" /\ ChunkType(bytes, off) = IDAT /\ frame = << >>) =>
        /\ frame' # << >>
        /\ IsDefaultFrame(frame'[1], anim)
        /\ PartsHeld(frame'[1]) = << PayloadAtOff >>
        /\ anim'.frames = anim.frames
        /\ anim'.width = anim.width /\ anim'.height = anim.height

SameFrameStep ==
    (pc = "extract" /\ ChunkType(bytes, off) = IDAT /\ frame # << >>) =>
        /\ frame' = << [frame[1] EXCEPT !.dataParts =
                          Append(@, View(Len(bytes), off + 8,
                                         off + 8 + ChunkLength(bytes, off)))] >>
        /\ PartsHeld(frame'[1]) = Append(PartsHeld(frame[1]), PayloadAtOff)
        /\ anim' = anim

\* the walk meets no fcTL chunk and one or more IDAT chunks
StillImage ==
    /\ \A i \in 1..WalkEnd(chunks) : chunks[i] # fcTL
    /\ \E i \in 1..WalkEnd(chunks) : chunks[i] = IDAT

SingleDefaultFrame ==
    (Extracted /\ StillImage) =>
        /\ Len(anim.frames) = 1
        /\ anim.frames[1].left = 0 /\ anim.frames[1].top = 0
        /\ anim.frames[1].delay = << 100, 1 >>
        /\ anim.frames[1].disposeOp = 1 /\ anim.frames[1].blendOp = 1
        /\ "dataParts" \in DOMAIN anim.frames[1] =>
              PartsHeld(anim.frames[1])
                  = PixelParts(chunks, StartsSoFar[1], WalkEnd(chunks))

C16_DefaultFrame ==
    [](SingleDefaultFrame) /\ [][DefaultFrameStep /\ SameFrameStep]_vars

\* a still image of two IDAT chunks: one frame of the size of the header,
\* holding both payloads
C16_Witness ==
    /\ chunks = << IHDR, IDAT, IDAT, IEND >>
    /\ pc = "synth"
    /\ Len(anim.frames) = 1
    /\ anim.frames[1].width = 2 /\ anim.frames[1].height = 3
    /\ PartsHeld(anim.frames[1]) = << Payload(IDAT, 2), Payload(IDAT, 3) >>

(***************************************************************************)
(* C17  Header rewrite independence across frames.  The IHDR chunk of the  *)
(* stream of every frame has as payload the frame's own width and height   *)
(* (big-endian, bytes 0..3 and 4..7) followed by the remaining bytes of    *)
(* the original IHDR payload, whatever frames were synthesized before; and *)
(* for a frame of the width and height of the canvas the payload is byte   *)
(* for byte that of the original IHDR chunk.                               *)
(***************************************************************************)
\* the payload of the first chunk of a stream
HeaderPayloadOf(stream) == Slice(stream, 16, 16 + ChunkLength(stream, 8))

\* the payload of the IHDR chunk of the input that the template is a view of
OriginalHeader == Deref(input, headerDataBytes)

C17_HeaderPerFrame ==
    \A k \in 1..Len(urls) :
        LET fr  == anim.frames[k]
            hdr == HeaderPayloadOf(urls[k])
        IN  /\ ChunkType(urls[k], 8) = IHDR
            /\ Len(hdr) = Len(OriginalHeader)
            /\ readDWord(hdr, 0) = fr.width
            /\ readDWord(hdr, 4) = fr.height
            /\ Slice(hdr, 8, Len(hdr)) = Slice(OriginalHeader, 8, Len(OriginalHeader))
            /\ (fr.width = anim.width /\ fr.height = anim.height) =>
                  hdr = OriginalHeader

\* a frame of the size of the canvas synthesized after a frame of another
\* size: its header payload is the original one
C17_Witness ==
    \E k \in 2..Len(urls) :
        /\ anim.frames[k].width = anim.width
        /\ anim.frames[k].height = anim.height
        /\ anim.frames[k - 1].width # anim.width
        /\ anim.frames[k - 1].height # anim.height
        /\ HeaderPayloadOf(urls[k]) = OriginalHeader
        /\ HeaderPayloadOf(urls[k - 1]) # OriginalHeader

(***************************************************************************)
(* C18  dataParts release.  A frame has no dataParts from the step that    *)
(* built its stream on, while the frames not yet synthesized still have    *)
(* theirs; so no frame of a resolved Animation carries dataParts.  No step *)
(* removes or reorders a frame of Animation.frames or changes its width,   *)
(* height, left, top, delay, disposeOp or blendOp.                         *)
(***************************************************************************)
HasParts(fr) == "dataParts" \in DOMAIN fr

\* the values of a frame that are fixed when it is finalized
Meta(fr) ==
    << fr.width, fr.height, fr.left, fr.top, fr.delay, fr.disposeOp, fr.blendOp >>

PartsReleased ==
    /\ \A k \in 1..Len(anim.frames) :
          /\ k <= Len(urls) => (~HasParts(anim.frames[k]) /\ HasImage(anim.frames[k]))
          /\ k > Len(urls) => (HasParts(anim.frames[k]) /\ ~HasImage(anim.frames[k]))
    /\ pc = "synth" => Len(urls) = f
    /\ promise = "resolved" =>
          \A k \in 1..Len(anim.frames) : ~HasParts(anim.frames[k])

FramesKept ==
    /\ Len(anim'.frames) >= Len(anim.frames)
    /\ \A k \in 1..Len(anim.frames) : Meta(anim'.frames[k]) = Meta(anim.frames[k])
    /\ pc \in {"synth", "returned"} => Len(anim'.frames) = Len(anim.frames)

C18_PartsReleased == [](PartsReleased) /\ [][FramesKept]_vars

\* in the middle of the synthesis of two or more frames: the parts of the
\* first are released, its stream holds a data chunk, the second has its parts
C18_Witness ==
    /\ pc = "synth"
    /\ f = 1
    /\ Len(anim.frames) >= 2
    /\ ~HasParts(anim.frames[1])
    /\ HasParts(anim.frames[2])
    /\ Len(anim.frames[2].dataParts) >= 1
    /\ Len(ChunkOffsets(urls[1], 8)) >= 2

(***************************************************************************)
(* C19  Walker bounds.  Every visit of the pre-scan and of the extraction  *)
(* pass is of a chunk record that starts inside the buffer; for a buffer   *)
(* of the signature and no chunk, neither pass calls its visitor.          *)
(***************************************************************************)
VisitsInside(trace) == \A k \in 1..Len(trace) : trace[k][2] < Len(input)

C19_WalkerBounds ==
    /\ VisitsInside(scanVisited)
    /\ VisitsInside(visited)
    /\ chunks = << >> => (scanVisited = << >> /\ visited = << >>)

(***************************************************************************)
(* C20  Input buffer preservation.  Once the promise is settled, the bytes *)
(* of the caller's buffer are those it held when the call was made.        *)
(***************************************************************************)
C20_InputPreserved == promise # "pending" => bytes = input
====
